---------------------------- MODULE Spec2Model ----------------------------
(***************************************************************************)
(* TerrariaClone (src/game.py): the simulation run by run_game -- terrain  *)
(* generation, the per-frame loop (event dispatch, player input and        *)
(* physics, camera, day/night clock, enemy and boss spawning, contact      *)
(* damage) and the mine/place block protocol.                              *)
(*                                                                         *)
(* Units.  Pixel coordinates and tile coordinates are integers as in the   *)
(* code.  Python floats are modelled exactly:                              *)
(*   - vel_x is kept in hundredths of a pixel per frame (1.5 -> 150,       *)
(*     2.25 -> 225, 4 -> 400); int() is truncation toward zero;            *)
(*   - vel_y only ever takes the values  b + 0.6 + ... + 0.6  (k terms,    *)
(*     summed in IEEE double) for a starting value b in {0, -12, -9.6}; it *)
(*     is kept as the pair [base, k] and int(), > 0 and < 0 are computed   *)
(*     from the exact value plus the sign of the double's rounding error   *)
(*     (FloatErr), which decides them when the exact value is an integer;  *)
(*   - brightness is kept as its numerator over 2 * DAY_LENGTH.            *)
(* The grid `world` is kept as the cells that differ from the grid that    *)
(* generate_world returned (`terrain` names that outcome of the random     *)
(* draws); WorldGet reads a cell and WorldSet writes one.                  *)
(***************************************************************************)
EXTENDS Integers, Sequences, FiniteSets, TLC

(***************************************************************************)
(* Configuration constants (src/game.py lines 35-51).                      *)
(***************************************************************************)
SCREEN_WIDTH == 960
SCREEN_HEIGHT == 540
TILE_SIZE == 32
WORLD_WIDTH == 100
WORLD_HEIGHT == 60
\* GRAVITY = 0.6, in tenths of a pixel per frame per frame
GRAVITY == 6
PLAYER_SPEED == 4
PLAYER_JUMP == 12
\* ENEMY_SPEED = 1.5, in hundredths of a pixel per frame
ENEMY_SPEED == 150
DAY_LENGTH == 1200
ENEMY_SPAWN_INTERVAL == 240
BOSS_SPAWN_ORE_COUNT == 10

\* Tile identifiers (generate_world docstring, draw_world)
AIR == 0
DIRT == 1
GRASS == 2
STONE == 3
ORE == 4
WOOD == 5

\* Sprite sizes: player and enemy images are (TILE_SIZE, int(TILE_SIZE*1.5)),
\* the boss image is scaled to TILE_SIZE * factor * 2 with factor = 2.
PLAYER_W == TILE_SIZE
PLAYER_H == (TILE_SIZE * 3) \div 2
BOSS_SIZE == TILE_SIZE * 2 * 2

\* A local variable of run_game that has not been assigned yet.
Unbound == -1000000
\* boss = None
None == [kind |-> "None"]

(***************************************************************************)
(* Arithmetic of the Python built-ins used by the code.                    *)
(***************************************************************************)
Abs(n) == IF n < 0 THEN -n ELSE n

Max(a, b) == IF a >= b THEN a ELSE b

Min(a, b) == IF a <= b THEN a ELSE b

\* a // b for b > 0: floor division
FloorDiv(a, b) == IF a >= 0 THEN a \div b ELSE -((-a + b - 1) \div b)

\* int(v) for v given as a count of 1/scale units: truncation toward zero
Trunc(v, scale) == IF v >= 0 THEN v \div scale ELSE -((-v) \div scale)

(***************************************************************************)
(* vel_y as [base, k]: the double obtained from `base` by k additions of   *)
(* GRAVITY.  base is in tenths: 0, -120 (-PLAYER_JUMP) or -96              *)
(* (-PLAYER_JUMP * 0.8 = -9.600000000000001).                              *)
(***************************************************************************)
\* Number of additions for which FloatErr below has been tabulated.
MaxGravitySteps == 700

VelY(base, k) == [base |-> base, k |-> k]

ExactTenths(v) == v.base + GRAVITY * v.k

\* Sign of (double - exact value) where the exact value is an integer:
\* -1 the double lies just below it, +1 just above, 0 it is exact.
FloatErr(v) ==
    LET k == v.k
    IN  IF ExactTenths(v) % 10 # 0 THEN 0
        ELSE IF v.base = 0 THEN
                 IF (k >= 10 /\ k <= 25) \/ (k >= 130 /\ k <= 500) THEN -1
                 ELSE IF (k >= 35 /\ k <= 120) \/ k >= 505 THEN 1
                 ELSE 0
        ELSE IF v.base = -120 THEN
                 IF (k >= 5 /\ k <= 50) \/ (k >= 150 /\ k <= 520) THEN -1
                 ELSE IF (k >= 60 /\ k <= 140) \/ k >= 525 THEN 1
                 ELSE 0
        ELSE     IF (k >= 1 /\ k <= 46) \/ (k >= 146 /\ k <= 516) THEN -1
                 ELSE IF (k >= 56 /\ k <= 136) \/ k >= 521 THEN 1
                 ELSE 0

\* int(vel_y)
IntVelY(v) ==
    LET e == ExactTenths(v)
    IN  IF e % 10 # 0 THEN Trunc(e, 10)
        ELSE IF e > 0 /\ FloatErr(v) < 0 THEN e \div 10 - 1
        ELSE IF e < 0 /\ FloatErr(v) > 0 THEN -((-e) \div 10) + 1
        ELSE Trunc(e, 10)

\* vel_y > 0, vel_y < 0
VelYPositive(v) ==
    LET e == ExactTenths(v) IN e > 0 \/ (e = 0 /\ FloatErr(v) > 0)

VelYNegative(v) ==
    LET e == ExactTenths(v) IN e < 0 \/ (e = 0 /\ FloatErr(v) < 0)

\* vel_y += GRAVITY
AddGravity(v) == VelY(v.base, v.k + 1)

(***************************************************************************)
(* pygame.Rect: [x, y, w, h] with integer fields.                          *)
(***************************************************************************)
Rect(x, y, w, h) == [x |-> x, y |-> y, w |-> w, h |-> h]

Left(r) == r.x

Top(r) == r.y

Right(r) == r.x + r.w

Bottom(r) == r.y + r.h

CenterX(r) == r.x + r.w \div 2

CenterY(r) == r.y + r.h \div 2

SetLeft(r, v) == [r EXCEPT !.x = v]

SetRight(r, v) == [r EXCEPT !.x = v - r.w]

SetTop(r, v) == [r EXCEPT !.y = v]

SetBottom(r, v) == [r EXCEPT !.y = v - r.h]

SetCenterX(r, v) == [r EXCEPT !.x = v - r.w \div 2]

\* Rect.colliderect: the rectangles overlap (touching edges do not)
colliderect(a, b) ==
    /\ a.x < b.x + b.w
    /\ b.x < a.x + a.w
    /\ a.y < b.y + b.h
    /\ b.y < a.y + a.h

(***************************************************************************)
(* generate_world(width, height).  The random draws are the arguments:     *)
(* steps[x] is random.choice([-1, 0, 1]) for column x and ores[<<y, x>>]   *)
(* is the outcome of random.random() < 0.05 for a deep cell.               *)
(***************************************************************************)
\* current_height after the clamp, for the columns lo..hi in order, where h
\* is its value before column lo.  The range is split in two so that the
\* evaluation nests only logarithmically deep.
RECURSIVE SurfaceHeights(_, _, _, _, _)
SurfaceHeights(h, height, steps, lo, hi) ==
    LET base == height \div 2
    IN  IF lo = hi
        THEN << Max(base - 4, Min(base + 4, h + steps[lo])) >>
        ELSE LET mid == (lo + hi) \div 2
                 left == SurfaceHeights(h, height, steps, lo, mid)
             IN  left \o SurfaceHeights(left[Len(left)], height, steps, mid + 1, hi)

\* The tile written at world[y][x] (0 where the loop writes nothing).
\* Rows are written for y in range(current_height, height).
GeneratedTile(height, cur, ore, y) ==
    IF y < cur \/ y >= height THEN AIR
    ELSE IF y = cur THEN GRASS
    ELSE IF y < cur + 5 THEN DIRT
    ELSE IF ore THEN ORE ELSE STONE

\* The grid the function returns: world[y][x]
generate_world(width, height, steps, ores) ==
    LET cur == SurfaceHeights(height \div 2, height, steps, 0, width - 1)
    IN  [y \in 0..(height - 1) |->
            [x \in 0..(width - 1) |->
                GeneratedTile(height, cur[x + 1], ores[<<y, x>>], y)]]

\* Whether the call raises IndexError instead of returning.  A negative
\* current_height (possible when height // 2 < 4) makes world[y] count from
\* the last row: the cell written there is written again when y reaches
\* that row, so the returned grid is as GeneratedTile says; but
\* y < -height is outside the list.
generate_world_raises(width, height, steps) ==
    \E x \in 1..width :
        SurfaceHeights(height \div 2, height, steps, 0, width - 1)[x] < -height

\* is_solid(tile_id)
is_solid(tile_id) == tile_id # AIR

(***************************************************************************)
(* Outcomes of the random draws of generate_world that the model starts    *)
(* from.  Every function from columns to {-1, 0, 1} and every choice of    *)
(* ore cells is a possible outcome; these are the ones explored:           *)
(*   1  "valley": the surface climbs one row per column on both sides of   *)
(*      the spawn columns 4 and 5; every deep cell is Ore;                 *)
(*   2  "plain":  every step is 0 (surface at row height/2); the deep      *)
(*      cells alternate Ore and Stone like a chessboard;                   *)
(*   3+ "ramp":   every step is +1, so the clamp holds the surface at      *)
(*      base + 4 from column 3 on; no Ore at all.                          *)
(***************************************************************************)
NTerrains == 3

TerrainSteps(t) ==
    [x \in 0..(WORLD_WIDTH - 1) |->
        IF t = 1 THEN (IF x \in 2..4 THEN 1 ELSE IF x \in 6..9 THEN -1 ELSE 0)
        ELSE IF t = 2 THEN 0
        ELSE 1]

TerrainOres(t) ==
    [c \in (0..(WORLD_HEIGHT - 1)) \X (0..(WORLD_WIDTH - 1)) |->
        IF t = 1 THEN TRUE
        ELSE IF t = 2 THEN (c[1] + c[2]) % 2 = 0
        ELSE FALSE]

\* world = generate_world(WORLD_WIDTH, WORLD_HEIGHT), one grid per outcome
GeneratedWorlds ==
    [t \in 1..NTerrains |->
        generate_world(WORLD_WIDTH, WORLD_HEIGHT, TerrainSteps(t), TerrainOres(t))]

VARIABLES
    terrain,            \* which outcome of generate_world's draws `world` started as
    world,              \* the grid: the cells changed since generation
    player,             \* the Player sprite
    enemies,            \* the enemy Group, in insertion order
    enemy_spawn_timer,
    boss,               \* the Boss sprite or None
    boss_spawned,
    boss_defeated,
    time_of_day,
    day_count,
    brightness,         \* numerator over 2 * DAY_LENGTH, Unbound before the first frame
    camera_x,           \* Unbound before the first frame's camera update
    camera_y,
    spawn_x,            \* Unbound until the first spawn attempt
    spawn_y,            \* Unbound until a ground row has been found
    running,
    events,             \* what is left of this frame's pygame.event.get() list
    event,              \* the event being dispatched (None outside the for loop)
    pc,                 \* "frame": in a pass of the while loop; "done"; "crashed"
    fault,              \* the exception that ended the program, "none" otherwise
    bosses_made,        \* history: the Boss objects constructed so far, as constructed
    call                \* a function called on its own: its arguments, the random
                        \* draws and the result; None in the runs of run_game

vars == <<terrain, world, player, enemies, enemy_spawn_timer, boss, boss_spawned,
          boss_defeated, time_of_day, day_count, brightness, camera_x, camera_y,
          spawn_x, spawn_y, running, events, event, pc, fault, bosses_made, call>>

(***************************************************************************)
(* The grid.  w is the set of changed cells, as a function <<y, x>> -> id. *)
(***************************************************************************)
InGrid(y, x) == 0 <= x /\ x < WORLD_WIDTH /\ 0 <= y /\ y < WORLD_HEIGHT

\* world[y][x] for indices inside the grid
WorldGet(w, y, x) ==
    IF <<y, x>> \in DOMAIN w THEN w[<<y, x>>] ELSE GeneratedWorlds[terrain][y][x]

\* world[y][x] = v
WorldSet(w, y, x, v) ==
    IF v = GeneratedWorlds[terrain][y][x]
    THEN [c \in DOMAIN w \ {<<y, x>>} |-> w[c]]
    ELSE [c \in DOMAIN w \cup {<<y, x>>} |-> IF c = <<y, x>> THEN v ELSE w[c]]

\* The rows y of `for y in range(WORLD_HEIGHT)` with world[y][x] != 0
SolidRows(w, x) == {y \in 0..(WORLD_HEIGHT - 1) : WorldGet(w, y, x) # AIR}

\* The row at which such a loop breaks (callers check SolidRows is not empty)
FirstSolidRow(w, x) ==
    CHOOSE y \in SolidRows(w, x) : \A z \in SolidRows(w, x) : y <= z

\* A Python list index i into a list of length n: the position read, or
\* Unbound where the read raises IndexError.
ListIndex(i, n) ==
    IF 0 <= i /\ i < n THEN i
    ELSE IF -n <= i /\ i < 0 THEN i + n
    ELSE Unbound

(***************************************************************************)
(* Collision resolution.  The three classes hold the same corner loop      *)
(* (Player lines 194-220, Enemy 321-344, Boss 397-419); a body is a record *)
(* with rect, vel_y and on_ground.  dx and dy are the signs of the         *)
(* arguments (-1, 0, 1).  The corners are computed once, before the loop.  *)
(***************************************************************************)
Corners(r) ==
    << <<Left(r), Top(r)>>, <<Right(r) - 1, Top(r)>>,
       <<Left(r), Bottom(r) - 1>>, <<Right(r) - 1, Bottom(r) - 1>> >>

\* ResolveCorner with dx >= 0 in place of dx > 0
ResolveCornerPushingAtRest(b, w, dx, dy, corner) ==
    LET tile_x == FloorDiv(corner[1], TILE_SIZE)
        tile_y == FloorDiv(corner[2], TILE_SIZE)
    IN  IF InGrid(tile_y, tile_x) /\ is_solid(WorldGet(w, tile_y, tile_x))
        THEN LET b1 == IF dy > 0
                       THEN [b EXCEPT !.rect = SetBottom(b.rect, tile_y * TILE_SIZE),
                                      !.vel_y = VelY(0, 0),
                                      !.on_ground = TRUE]
                       ELSE IF dy < 0
                       THEN [b EXCEPT !.rect = SetTop(b.rect, (tile_y + 1) * TILE_SIZE),
                                      !.vel_y = VelY(0, 0)]
                       ELSE b
             IN  IF dx >= 0
                 THEN [b1 EXCEPT !.rect = SetRight(b1.rect, tile_x * TILE_SIZE)]
                 ELSE [b1 EXCEPT !.rect = SetLeft(b1.rect, (tile_x + 1) * TILE_SIZE)]
        ELSE b

\* The body of the for loop, for one corner
ResolveCorner(b, w, dx, dy, corner) ==
    LET tile_x == FloorDiv(corner[1], TILE_SIZE)
        tile_y == FloorDiv(corner[2], TILE_SIZE)
    IN  IF InGrid(tile_y, tile_x) /\ is_solid(WorldGet(w, tile_y, tile_x))
        THEN LET b1 == IF dy > 0
                       THEN [b EXCEPT !.rect = SetBottom(b.rect, tile_y * TILE_SIZE),
                                      !.vel_y = VelY(0, 0),
                                      !.on_ground = TRUE]
                       ELSE IF dy < 0
                       THEN [b EXCEPT !.rect = SetTop(b.rect, (tile_y + 1) * TILE_SIZE),
                                      !.vel_y = VelY(0, 0)]
                       ELSE b
             IN  IF dx > 0
                 THEN [b1 EXCEPT !.rect = SetRight(b1.rect, tile_x * TILE_SIZE)]
                 ELSE IF dx < 0
                 THEN [b1 EXCEPT !.rect = SetLeft(b1.rect, (tile_x + 1) * TILE_SIZE)]
                 ELSE b1
        ELSE b

ResolveCorners(b, w, dx, dy) ==
    LET cs == Corners(b.rect)
        b1 == ResolveCorner(b, w, dx, dy, cs[1])
        b2 == ResolveCorner(b1, w, dx, dy, cs[2])
        b3 == ResolveCorner(b2, w, dx, dy, cs[3])
    IN  ResolveCorner(b3, w, dx, dy, cs[4])

\* "Keep within world bounds" (Enemy lines 345-349, Boss 420-424)
ClampToWorld(b) ==
    LET b1 == IF Left(b.rect) < 0
              THEN [b EXCEPT !.rect = SetLeft(b.rect, 0)] ELSE b
    IN  IF Right(b1.rect) > WORLD_WIDTH * TILE_SIZE
        THEN [b1 EXCEPT !.rect = SetRight(b1.rect, WORLD_WIDTH * TILE_SIZE)]
        ELSE b1

Sign(n) == IF n > 0 THEN 1 ELSE IF n < 0 THEN -1 ELSE 0

VelYSign(v) == IF VelYPositive(v) THEN 1 ELSE IF VelYNegative(v) THEN -1 ELSE 0

\* Player._resolve_collisions
Player_resolve_collisions(p, w, dx, dy) == ResolveCorners(p, w, dx, dy)

\* Enemy._resolve_collisions
Enemy_resolve_collisions(e, w, dx, dy) == ClampToWorld(ResolveCorners(e, w, dx, dy))

\* Boss._resolve_collisions
Boss_resolve_collisions(b, w, dx, dy) == ClampToWorld(ResolveCorners(b, w, dx, dy))

(***************************************************************************)
(* Player                                                                  *)
(***************************************************************************)
\* Player.__init__(x, y): the bottom centre of the rect is at (x, y)
Player_init(x, y) ==
    [rect |-> SetBottom(SetCenterX(Rect(0, 0, PLAYER_W, PLAYER_H), x), y),
     vel_x |-> 0,
     vel_y |-> VelY(0, 0),
     on_ground |-> FALSE,
     health |-> 100,
     inventory |-> [dirt |-> 0, stone |-> 0, ore |-> 0, wood |-> 0],
     selected |-> "dirt",
     hurt_cooldown |-> 0]

\* The state of the keyboard read by pygame.key.get_pressed(): left is
\* K_a or K_LEFT, right is K_d or K_RIGHT, jump is K_w, K_UP or K_SPACE.
KeyState(left, right, jump, k1, k2, k3, k4) ==
    [left |-> left, right |-> right, jump |-> jump,
     k1 |-> k1, k2 |-> k2, k3 |-> k3, k4 |-> k4]

\* Player.handle_input
handle_input(p, keys) ==
    LET vx == IF keys.right THEN PLAYER_SPEED * 100
              ELSE IF keys.left THEN -(PLAYER_SPEED * 100)
              ELSE 0
        jumps == keys.jump /\ p.on_ground
        sel == IF keys.k4 THEN "wood"
               ELSE IF keys.k3 THEN "ore"
               ELSE IF keys.k2 THEN "stone"
               ELSE IF keys.k1 THEN "dirt"
               ELSE p.selected
    IN  [p EXCEPT !.vel_x = vx,
                  !.vel_y = IF jumps THEN VelY(-(PLAYER_JUMP * 10), 0) ELSE @,
                  !.on_ground = IF jumps THEN FALSE ELSE @,
                  !.selected = sel]

(***************************************************************************)
(* The tail the three update methods share (Player lines 176-189, Enemy    *)
(* 307-318, Boss 385-394): gravity, the horizontal move and its collision  *)
(* pass, the vertical move and its collision pass, the cooldown timer.     *)
(* cls names the class whose _resolve_collisions is called.                *)
(***************************************************************************)
\* self.vel_y += GRAVITY
ApplyGravity(b) == [b EXCEPT !.vel_y = AddGravity(@)]

\* self._resolve_collisions of the class cls ("Player", "Enemy" or "Boss")
Resolve(cls, b, w, dx, dy) ==
    IF cls = "Player" THEN Player_resolve_collisions(b, w, dx, dy)
    ELSE IF cls = "Enemy" THEN Enemy_resolve_collisions(b, w, dx, dy)
    ELSE Boss_resolve_collisions(b, w, dx, dy)

\* self.rect.x += int(self.vel_x); self._resolve_collisions(world, dx=self.vel_x, dy=0)
MoveHorizontally(b, w, cls) ==
    Resolve(cls, [b EXCEPT !.rect.x = @ + Trunc(b.vel_x, 100)], w, Sign(b.vel_x), 0)

\* self.rect.y += int(self.vel_y); self.on_ground = False;
\* self._resolve_collisions(world, dx=0, dy=self.vel_y)
MoveVertically(b, w, cls) ==
    Resolve(cls, [b EXCEPT !.rect.y = @ + IntVelY(b.vel_y), !.on_ground = FALSE],
            w, 0, VelYSign(b.vel_y))

\* if self.hurt_cooldown > 0: self.hurt_cooldown -= 1
CoolDown(b) == [b EXCEPT !.hurt_cooldown = IF @ > 0 THEN @ - 1 ELSE @]

Physics(b, w, cls) ==
    CoolDown(MoveVertically(MoveHorizontally(ApplyGravity(b), w, cls), w, cls))

\* Player.update
Player_update(p, w) == Physics(p, w, "Player")

\* The tile coordinate a click at mouse_pos addresses
ClickTile(cam_x, cam_y, mouse_pos) ==
    [x |-> FloorDiv(mouse_pos[1] + cam_x, TILE_SIZE),
     y |-> FloorDiv(mouse_pos[2] + cam_y, TILE_SIZE)]

\* The player's tile position px, py
PlayerTile(p) ==
    [x |-> FloorDiv(CenterX(p.rect), TILE_SIZE),
     y |-> FloorDiv(CenterY(p.rect), TILE_SIZE)]

\* OutOfReach without the test of the rows
OutOfReachByColumn(p, t) == Abs(t.x - PlayerTile(p).x) > 4

\* "can't mine too far away": the test that makes mine_block return
OutOfReach(p, t) ==
    Abs(t.x - PlayerTile(p).x) > 4 \/ Abs(t.y - PlayerTile(p).y) > 4

\* MinedResource with the Grass branch left out
MinedResourceWithoutGrass(tile) ==
    IF tile = DIRT THEN "dirt"
    ELSE IF tile = STONE THEN "stone"
    ELSE IF tile = ORE THEN "ore"
    ELSE IF tile = WOOD THEN "wood"
    ELSE "none"

\* The inventory key a mined tile is added to ("none": no count changes)
MinedResource(tile) ==
    IF tile = DIRT THEN "dirt"
    ELSE IF tile = GRASS THEN "dirt"
    ELSE IF tile = STONE THEN "stone"
    ELSE IF tile = ORE THEN "ore"
    ELSE IF tile = WOOD THEN "wood"
    ELSE "none"

\* Mineable without the test world_y < WORLD_HEIGHT - 1
MineableToTheLastRow(w, t) ==
    /\ InGrid(t.y, t.x)
    /\ WorldGet(w, t.y, t.x) # AIR

\* Whether mine_block removes the tile at t
Mineable(w, t) ==
    /\ InGrid(t.y, t.x)
    /\ WorldGet(w, t.y, t.x) # AIR
    /\ t.y < WORLD_HEIGHT - 1

\* Player.mine_block: the player and the grid after the call
mine_block(p, w, cam_x, cam_y, mouse_pos) ==
    LET t == ClickTile(cam_x, cam_y, mouse_pos)
    IN  IF OutOfReach(p, t) THEN [player |-> p, world |-> w]
        ELSE IF Mineable(w, t)
        THEN LET res == MinedResource(WorldGet(w, t.y, t.x))
             IN  [player |-> IF res = "none" THEN p
                             ELSE [p EXCEPT !.inventory[res] = @ + 1],
                  world |-> WorldSet(w, t.y, t.x, AIR)]
        ELSE [player |-> p, world |-> w]

\* The tile id place_block writes for the selected item
PlacedTile(selected) ==
    IF selected = "dirt" THEN DIRT
    ELSE IF selected = "stone" THEN STONE
    ELSE IF selected = "ore" THEN ORE
    ELSE WOOD

TileRect(t) == Rect(t.x * TILE_SIZE, t.y * TILE_SIZE, TILE_SIZE, TILE_SIZE)

\* Placeable without the test of the inventory count
PlaceableWithoutStock(p, w, t) ==
    /\ InGrid(t.y, t.x)
    /\ WorldGet(w, t.y, t.x) = AIR
    /\ ~colliderect(p.rect, TileRect(t))

\* Placeable without the test against the player's rectangle
PlaceableInsidePlayer(p, w, t) ==
    /\ p.inventory[p.selected] > 0
    /\ InGrid(t.y, t.x)
    /\ WorldGet(w, t.y, t.x) = AIR

\* Whether place_block writes the tile at t
Placeable(p, w, t) ==
    /\ p.inventory[p.selected] > 0
    /\ InGrid(t.y, t.x)
    /\ WorldGet(w, t.y, t.x) = AIR
    /\ ~colliderect(p.rect, TileRect(t))

\* Player.place_block: the player and the grid after the call
place_block(p, w, cam_x, cam_y, mouse_pos) ==
    LET t == ClickTile(cam_x, cam_y, mouse_pos)
    IN  IF Placeable(p, w, t)
        THEN [player |-> [p EXCEPT !.inventory[p.selected] = @ - 1],
              world |-> WorldSet(w, t.y, t.x, PlacedTile(p.selected))]
        ELSE [player |-> p, world |-> w]

(***************************************************************************)
(* Enemy and Boss                                                          *)
(***************************************************************************)
\* Enemy.__init__(x, y); dir is the outcome of random.choice for vel_x
Enemy_init(x, y, dir) ==
    [rect |-> SetBottom(SetCenterX(Rect(0, 0, PLAYER_W, PLAYER_H), x), y),
     vel_x |-> dir * ENEMY_SPEED,
     vel_y |-> VelY(0, 0),
     on_ground |-> FALSE,
     health |-> 30,
     hurt_cooldown |-> 0]

\* "Follow the player": the direction chosen at the top of Enemy.update
EnemyTurn(e, p) ==
    [e EXCEPT !.vel_x = IF CenterX(p.rect) < CenterX(e.rect)
                        THEN -ENEMY_SPEED ELSE ENEMY_SPEED]

\* "Randomly jump": vel_y = -PLAYER_JUMP * 0.8 when on the ground and the
\* draw random.random() < ENEMY_JUMP_CHANCE succeeds
EnemyJump(e, jump) ==
    IF e.on_ground /\ jump
    THEN [e EXCEPT !.vel_y = VelY(-(PLAYER_JUMP * 8), 0), !.on_ground = FALSE]
    ELSE e

\* Enemy.update; jump is the outcome of random.random() < ENEMY_JUMP_CHANCE
Enemy_update(e, w, p, jump) ==
    Physics(EnemyJump(EnemyTurn(e, p), jump), w, "Enemy")

\* Boss.__init__(x, y): vel_x = ENEMY_SPEED * 1.5
Boss_init(x, y) ==
    [rect |-> SetBottom(SetCenterX(Rect(0, 0, BOSS_SIZE, BOSS_SIZE), x), y),
     vel_x |-> (ENEMY_SPEED * 3) \div 2,
     vel_y |-> VelY(0, 0),
     on_ground |-> FALSE,
     health |-> 250,
     hurt_cooldown |-> 0]

\* "Track the player horizontally"
BossTurn(b, p) ==
    [b EXCEPT !.vel_x = IF CenterX(p.rect) < CenterX(b.rect) THEN -Abs(@) ELSE Abs(@)]

\* "Occasionally jump": vel_y = -PLAYER_JUMP when on the ground and the draw
\* random.random() < 0.02 succeeds
BossJump(b, jump) ==
    IF b.on_ground /\ jump
    THEN [b EXCEPT !.vel_y = VelY(-(PLAYER_JUMP * 10), 0), !.on_ground = FALSE]
    ELSE b

\* Boss.update; jump is the outcome of random.random() < 0.02
Boss_update(b, w, p, jump) ==
    Physics(BossJump(BossTurn(b, p), jump), w, "Boss")

(***************************************************************************)
(* run_game: the pieces of one pass of the while loop                      *)
(***************************************************************************)
\* camera_x, camera_y after "Update camera" and "Clamp camera"
CameraX(p) ==
    Max(0, Min(CenterX(p.rect) - SCREEN_WIDTH \div 2,
               WORLD_WIDTH * TILE_SIZE - SCREEN_WIDTH))

CameraY(p) ==
    Max(0, Min(CenterY(p.rect) - SCREEN_HEIGHT \div 2,
               WORLD_HEIGHT * TILE_SIZE - SCREEN_HEIGHT))

\* "time_of_day += 1" with the wrap one tick late (> instead of >=)
NextTimeOfDayLate(tod) == IF tod + 1 > DAY_LENGTH THEN 0 ELSE tod + 1

\* time_of_day after "time_of_day += 1" and the wrap
NextTimeOfDay(tod) == IF tod + 1 >= DAY_LENGTH THEN 0 ELSE tod + 1

Wraps(tod) == tod + 1 >= DAY_LENGTH

\* brightness = 0.5 + 0.5 * (1 - abs(0.5 - t) * 2) with t = time_of_day /
\* DAY_LENGTH, in units of 1 / (2 * DAY_LENGTH): 0.5 is DAY_LENGTH, 1 is
\* 2 * DAY_LENGTH and t is 2 * time_of_day.
Brightness(tod) ==
    LET half == DAY_LENGTH
        one == 2 * DAY_LENGTH
        t == 2 * tod
    IN  half + (one - Abs(half - t) * 2) \div 2

\* is_night with <= in place of <
IsNightOrTwilight(b) == b <= DAY_LENGTH

\* is_night = brightness < 0.5
IsNight(b) == b < DAY_LENGTH

\* BossUnlock without the test of boss_spawned
BossUnlockEveryTick(spawned, p) == p.inventory.ore >= BOSS_SPAWN_ORE_COUNT

\* "if not boss_spawned and player.inventory['ore'] >= BOSS_SPAWN_ORE_COUNT"
BossUnlock(spawned, p) == ~spawned /\ p.inventory.ore >= BOSS_SPAWN_ORE_COUNT

\* gx = bx // TILE_SIZE for bx = player.rect.centerx
BossColumn(p) == FloorDiv(CenterX(p.rect), TILE_SIZE)

\* gy: 0 unless the search over world[y][int(gx)] finds a solid row
BossGroundRow(w, col) ==
    IF SolidRows(w, col) = {} THEN 0 ELSE FirstSolidRow(w, col)

\* ContactDamage without the test of hurt_cooldown
ContactDamageOnEveryTouch(p, a, amount, knock) ==
    IF colliderect(a.rect, p.rect)
    THEN [p EXCEPT !.health = @ - amount,
                   !.hurt_cooldown = 60,
                   !.vel_x = IF CenterX(a.rect) < CenterX(p.rect)
                             THEN @ + knock * 100 ELSE @ - knock * 100]
    ELSE p

\* "Damage player on collision" for an enemy (amount 10, knockback 2) and
\* the boss (amount 20, knockback 4); a is the attacker after its update
ContactDamage(p, a, amount, knock) ==
    IF colliderect(a.rect, p.rect) /\ p.hurt_cooldown = 0
    THEN [p EXCEPT !.health = @ - amount,
                   !.hurt_cooldown = 60,
                   !.vel_x = IF CenterX(a.rect) < CenterX(p.rect)
                             THEN @ + knock * 100 ELSE @ - knock * 100]
    ELSE p

\* The removal test without its first half
EnemyGoneByHealth(e) == e.health <= 0

\* "If enemy falls off world or dies, remove"
EnemyGone(e) == Top(e.rect) > WORLD_HEIGHT * TILE_SIZE \/ e.health <= 0

\* "for enemy in list(enemies)", lines 645-659: the group and the player
\* after the loop has handled the enemies from the i-th on.  jumps[i] is the
\* random jump draw of the i-th enemy (absent: it draws nothing).
RECURSIVE EnemiesLoop(_, _, _, _, _)
\* the rest of the loop once the i-th enemy, updated to e, has been handled
EnemiesRest(es, i, e, p, w, jumps) ==
    LET rest == EnemiesLoop(es, i + 1, ContactDamage(p, e, 10, 2), w, jumps)
    IN  [enemies |-> (IF EnemyGone(e) THEN <<>> ELSE <<e>>) \o rest.enemies,
         player |-> rest.player]

EnemiesLoop(es, i, p, w, jumps) ==
    IF i > Len(es) THEN [enemies |-> <<>>, player |-> p]
    ELSE EnemiesRest(es, i, Enemy_update(es[i], w, p, i \in DOMAIN jumps /\ jumps[i]),
                     p, w, jumps)

\* The number of passes of the while loop completed so far
Frames == day_count * DAY_LENGTH + time_of_day

\* Whether this pass reaches "Try to spawn a zombie"
SpawnAttempt ==
    /\ IsNight(Brightness(NextTimeOfDay(time_of_day)))
    /\ ~boss_defeated
    /\ enemy_spawn_timer + 1 >= ENEMY_SPAWN_INTERVAL

(***************************************************************************)
(* One pass of the while loop after the event loop, lines 579-681, as a    *)
(* chain of stages, each taking what the stages before it produced.  keys  *)
(* is the keyboard state; sx, dir, ejumps and bjump are the random draws   *)
(* (spawn column, the new enemy's direction, the enemies' and the boss's   *)
(* jump draws).  AfterInput gives every local the pass assigns and, in     *)
(* `fault`, the exception that ends it, if any: the locals assigned after  *)
(* the raising statement keep their values.                                *)
(***************************************************************************)
\* "Enemy spawning at night", lines 610-626; p is the player after update
SpawnPass(p, sx, dir) ==
    LET spawning == IsNight(Brightness(NextTimeOfDay(time_of_day))) /\ ~boss_defeated
        far == SpawnAttempt /\ Abs(sx - FloorDiv(CenterX(p.rect), TILE_SIZE)) > 10
        \* the ground search leaves spawn_y as it was when no row is solid
        sy == IF far /\ SolidRows(world, sx) # {}
              THEN FirstSolidRow(world, sx) ELSE spawn_y
        unbound == far /\ sy = Unbound
    IN  [enemy_spawn_timer |-> IF spawning
                               THEN (IF SpawnAttempt THEN 0 ELSE enemy_spawn_timer + 1)
                               ELSE enemy_spawn_timer,
         spawn_x |-> IF SpawnAttempt THEN sx ELSE spawn_x,
         spawn_y |-> sy,
         enemies |-> IF far /\ ~unbound
                     THEN Append(enemies, Enemy_init(sx * TILE_SIZE, sy * TILE_SIZE, dir))
                     ELSE enemies,
         fault |-> IF unbound THEN "UnboundLocalError" ELSE "none"]

\* "Spawn boss if conditions met", lines 629-642
BossSpawn(p) ==
    LET unlock == BossUnlock(boss_spawned, p)
        col == ListIndex(BossColumn(p), WORLD_WIDTH)
        made == unlock /\ col # Unbound
    IN  [boss |-> IF made
                  THEN Boss_init(CenterX(p.rect), BossGroundRow(world, col) * TILE_SIZE)
                  ELSE boss,
         made |-> made,
         fault |-> IF unlock /\ col = Unbound THEN "IndexError" ELSE "none"]

\* The locals at the end of the pass.  p is the player after update, hurt
\* the player after the contact damage, s and b the results of the two
\* spawn stages, es the enemy group and bossNow the boss; acted tells
\* whether the "Update boss" block ran.
Locals(p, hurt, s, b, es, bossNow, acted, exception) ==
    [player |-> hurt,
     camera_x |-> CameraX(p),
     camera_y |-> CameraY(p),
     time_of_day |-> NextTimeOfDay(time_of_day),
     day_count |-> IF Wraps(time_of_day) THEN day_count + 1 ELSE day_count,
     brightness |-> Brightness(NextTimeOfDay(time_of_day)),
     enemy_spawn_timer |-> s.enemy_spawn_timer,
     spawn_x |-> s.spawn_x,
     spawn_y |-> s.spawn_y,
     enemies |-> es,
     boss |-> bossNow,
     boss_spawned |-> boss_spawned \/ b.made,
     boss_defeated |-> boss_defeated \/ (acted /\ bossNow.health <= 0),
     bosses_made |-> IF b.made THEN Append(bosses_made, b.boss) ELSE bosses_made,
     \* "Check for game over"
     running |-> IF exception = "none" /\ hurt.health <= 0 THEN FALSE ELSE running,
     fault |-> exception]

\* "Damage player on collision", lines 665-672; moved is the boss after update
BossContact(p, s, b, loop, moved) ==
    Locals(p, ContactDamage(loop.player, moved, 20, 4), s, b, loop.enemies, moved,
           TRUE, "none")

\* "Update boss", lines 662-677, and the game-over check
BossPass(p, s, b, loop, bjump) ==
    IF b.boss # None /\ ~boss_defeated
    THEN BossContact(p, s, b, loop, Boss_update(b.boss, world, loop.player, bjump))
    ELSE Locals(p, loop.player, s, b, loop.enemies, b.boss, FALSE, "none")

\* The boss spawn, then "Update enemies" and the rest
AfterSpawn(p, s, b, ejumps, bjump) ==
    IF b.fault # "none"
    THEN Locals(p, p, s, b, s.enemies, b.boss, FALSE, b.fault)
    ELSE BossPass(p, s, b, EnemiesLoop(s.enemies, 1, p, world, ejumps), bjump)

\* The enemy spawn and the rest
AfterUpdate(p, s, ejumps, bjump) ==
    IF s.fault # "none"
    THEN Locals(p, p, s, [boss |-> boss, made |-> FALSE, fault |-> "none"],
                s.enemies, boss, FALSE, s.fault)
    ELSE AfterSpawn(p, s, BossSpawn(p), ejumps, bjump)

\* The camera, the clock and the enemy spawn, then the rest
AfterInput(p, sx, dir, ejumps, bjump) ==
    AfterUpdate(p, SpawnPass(p, sx, dir), ejumps, bjump)

(***************************************************************************)
(* Events (pygame.event.get(), lines 569-577)                              *)
(***************************************************************************)
QuitEvent == [type |-> "QUIT", button |-> 0, pos |-> <<0, 0>>]

\* button 1 is the left button (mine), button 3 the right button (place)
MouseDown(button, pos) == [type |-> "MOUSEBUTTONDOWN", button |-> button, pos |-> pos]

NoEvent == [type |-> "None", button |-> 0, pos |-> <<0, 0>>]

NoKeys == KeyState(FALSE, FALSE, FALSE, FALSE, FALSE, FALSE, FALSE)

EmptyGrid == [c \in {} |-> AIR]

(***************************************************************************)
(* The state after the set-up code of run_game, lines 536-565, for the     *)
(* generation outcome t; evs is the first frame's event list.              *)
(***************************************************************************)
\* "Find ground height at x coordinate 5"
SpawnGroundRow(t) ==
    LET solid == {y \in 0..(WORLD_HEIGHT - 1) : GeneratedWorlds[t][y][5] # AIR}
    IN  IF solid = {} THEN 0 ELSE CHOOSE y \in solid : \A z \in solid : y <= z

SetUp(t, evs) ==
    /\ terrain = t
    /\ world = EmptyGrid
    /\ player = Player_init(5 * TILE_SIZE, SpawnGroundRow(t) * TILE_SIZE)
    /\ enemies = <<>>
    /\ enemy_spawn_timer = 0
    /\ boss = None
    /\ boss_spawned = FALSE
    /\ boss_defeated = FALSE
    /\ time_of_day = 0
    /\ day_count = 0
    /\ brightness = Unbound
    /\ camera_x = Unbound
    /\ camera_y = Unbound
    /\ spawn_x = Unbound
    /\ spawn_y = Unbound
    /\ running = TRUE
    /\ events = evs
    /\ event = NoEvent
    /\ pc = "frame"
    /\ fault = "none"
    /\ bosses_made = <<>>

\* run_game from its first pass: no function is called on its own
InitWith(t, evs) == SetUp(t, evs) /\ call = None

(***************************************************************************)
(* The for loop over the events: one action per dispatched event.          *)
(***************************************************************************)
Dispatching(type, button) ==
    /\ pc = "frame"
    /\ events # <<>>
    /\ Head(events).type = type
    /\ Head(events).button = button

\* event.type == pygame.QUIT
Quit ==
    /\ Dispatching("QUIT", 0)
    /\ running' = FALSE
    /\ event' = Head(events)
    /\ events' = Tail(events)
    /\ UNCHANGED <<terrain, world, player, enemies, enemy_spawn_timer, boss,
                   boss_spawned, boss_defeated, time_of_day, day_count, brightness,
                   camera_x, camera_y, spawn_x, spawn_y, pc, fault, bosses_made, call>>

\* Reading camera_x, camera_y before the first camera update raises
\* UnboundLocalError while the call's arguments are evaluated.
CameraUnbound == camera_x = Unbound \/ camera_y = Unbound

Crash(exception) ==
    /\ pc' = "crashed"
    /\ fault' = exception

\* Left click: player.mine_block(world, (camera_x, camera_y), event.pos)
MineClick ==
    /\ Dispatching("MOUSEBUTTONDOWN", 1)
    /\ event' = Head(events)
    /\ events' = Tail(events)
    /\ IF CameraUnbound
       THEN /\ Crash("UnboundLocalError")
            /\ UNCHANGED <<player, world>>
       ELSE LET r == mine_block(player, world, camera_x, camera_y, Head(events).pos)
            IN  /\ player' = r.player
                /\ world' = r.world
                /\ UNCHANGED <<pc, fault>>
    /\ UNCHANGED <<terrain, enemies, enemy_spawn_timer, boss, boss_spawned,
                   boss_defeated, time_of_day, day_count, brightness, camera_x,
                   camera_y, spawn_x, spawn_y, running, bosses_made, call>>

\* Right click: player.place_block(world, (camera_x, camera_y), event.pos)
PlaceClick ==
    /\ Dispatching("MOUSEBUTTONDOWN", 3)
    /\ event' = Head(events)
    /\ events' = Tail(events)
    /\ IF CameraUnbound
       THEN /\ Crash("UnboundLocalError")
            /\ UNCHANGED <<player, world>>
       ELSE LET r == place_block(player, world, camera_x, camera_y, Head(events).pos)
            IN  /\ player' = r.player
                /\ world' = r.world
                /\ UNCHANGED <<pc, fault>>
    /\ UNCHANGED <<terrain, enemies, enemy_spawn_timer, boss, boss_spawned,
                   boss_defeated, time_of_day, day_count, brightness, camera_x,
                   camera_y, spawn_x, spawn_y, running, bosses_made, call>>

(***************************************************************************)
(* The rest of the pass, lines 579-681, and the loop test `while running`. *)
(* keys is the keyboard state of this pass, nextEvents the list that       *)
(* pygame.event.get() returns at the start of the next pass, and bossJumps *)
(* the outcomes allowed for the boss's draw random.random() < 0.02.        *)
(***************************************************************************)
\* random.randint(0, WORLD_WIDTH - 1), drawn only in a spawn attempt
SpawnDraws == IF SpawnAttempt THEN 0..(WORLD_WIDTH - 1) ELSE {0}

\* random.choice([-1, 1]) in Enemy.__init__
DirDraws == IF SpawnAttempt THEN {-1, 1} ELSE {1}

\* random.random() < ENEMY_JUMP_CHANCE, drawn by the enemies on the ground
EnemyJumpDraws == [{i \in 1..Len(enemies) : enemies[i].on_ground} -> BOOLEAN]

\* random.random() < 0.02, drawn by a live boss on the ground
BossJumpDraws(bossJumps) ==
    IF boss # None /\ ~boss_defeated /\ boss.on_ground THEN bossJumps ELSE {FALSE}

\* the pass for given outcomes sx, dir, ej and bj of the random draws
TickWith(keys, nextEvents, sx, dir, ej, bj) ==
    /\ pc = "frame"
    /\ events = <<>>
    /\ player.vel_y.k < MaxGravitySteps
    \* player.handle_input(); player.update(world); then the rest
    /\ \E p \in {Player_update(handle_input(player, keys), world)} :
       \E f \in {AfterInput(p, sx, dir, ej, bj)} :
             /\ player' = f.player
             /\ camera_x' = f.camera_x
             /\ camera_y' = f.camera_y
             /\ time_of_day' = f.time_of_day
             /\ day_count' = f.day_count
             /\ brightness' = f.brightness
             /\ enemy_spawn_timer' = f.enemy_spawn_timer
             /\ spawn_x' = f.spawn_x
             /\ spawn_y' = f.spawn_y
             /\ enemies' = f.enemies
             /\ boss' = f.boss
             /\ boss_spawned' = f.boss_spawned
             /\ boss_defeated' = f.boss_defeated
             /\ bosses_made' = f.bosses_made
             /\ running' = f.running
             /\ fault' = f.fault
             /\ pc' = IF f.fault # "none" THEN "crashed"
                      ELSE IF f.running THEN "frame" ELSE "done"
             /\ events' = IF f.fault = "none" /\ f.running THEN nextEvents ELSE <<>>
    /\ event' = NoEvent
    /\ UNCHANGED <<terrain, world, call>>

Tick(keys, nextEvents, bossJumps) ==
    \E sx \in SpawnDraws, dir \in DirDraws, ej \in EnemyJumpDraws,
       bj \in BossJumpDraws(bossJumps) :
        TickWith(keys, nextEvents, sx, dir, ej, bj)

(***************************************************************************)
(* Inputs                                                                  *)
(***************************************************************************)
HoldLeft == KeyState(TRUE, FALSE, FALSE, FALSE, FALSE, FALSE, FALSE)

HoldRight == KeyState(FALSE, TRUE, FALSE, FALSE, FALSE, FALSE, FALSE)

HoldJump == KeyState(FALSE, FALSE, TRUE, FALSE, FALSE, FALSE, FALSE)

\* the number keys 2 and 3 select stone and ore
SelectStone == KeyState(FALSE, FALSE, FALSE, FALSE, TRUE, FALSE, FALSE)

SelectOre == KeyState(FALSE, FALSE, FALSE, FALSE, FALSE, TRUE, FALSE)

\* Pointer positions in window coordinates.  With the camera of the spawn
\* position (camera_x = 0, the player's centre at about (160, 270)):
\*   a cell four columns to the left and four rows down (Dirt, Stone or Ore
\*   by the terrain); the surface cell under the player's right half; the
\*   cell the player's centre is in; a cell of the player's column five rows
\*   below its centre; a cell far to the lower right; and a position left of
\*   the window, which the pointer reports while a button is held and it is
\*   dragged outside.
PointerPositions ==
    {<<48, 400>>, <<176, 310>>, <<150, 270>>, <<150, 440>>, <<900, 500>>, <<-20, 310>>}

Clicks == {MouseDown(b, pos) : b \in {1, 3}, pos \in PointerPositions}

\* pygame.event.get(): nothing, one click, or the window being closed
EventLists == {<<>>, <<QuitEvent>>} \cup {<<c>> : c \in Clicks}

KeyStates == {NoKeys, HoldLeft, HoldJump, SelectStone}

(***************************************************************************)
(* Spec: the game from any of the generation outcomes, with free input,    *)
(* for the first MaxFrames passes of the loop.                             *)
(***************************************************************************)
MaxFrames == 4

Init == \E t \in 1..NTerrains, evs \in EventLists : InitWith(t, evs)

Pass ==
    /\ Frames < MaxFrames
    /\ \E keys \in KeyStates, evs \in EventLists : Tick(keys, evs, BOOLEAN)

Next == Quit \/ MineClick \/ PlaceClick \/ Pass

Spec == Init /\ [][Next]_vars

(***************************************************************************)
(* ClockSpec: the game left alone (no key held, no event) for a little     *)
(* over one period of the day/night clock.                                 *)
(***************************************************************************)
ClockFrames == 1300

ClockInit == InitWith(2, <<>>)

ClockPass == Frames < ClockFrames /\ Tick(NoKeys, <<>>, {FALSE})

ClockNext == ClockPass

ClockSpec == ClockInit /\ [][ClockNext]_vars

(***************************************************************************)
(* QuestSpec: the quest on the valley terrain.  From the spawn position    *)
(* nine Ore cells are in reach; the tenth needs the player to dig the two  *)
(* surface cells it stands on and drop one row.  The pointer positions are *)
(* those of these cells on the screen while the player is at the spawn     *)
(* position (camera at (0, 762)).                                          *)
(***************************************************************************)
\* left clicks on the nine Ore cells in reach of the spawn position
OreClicks ==
    << MouseDown(1, <<48, 374>>), MouseDown(1, <<48, 406>>), MouseDown(1, <<80, 406>>),
       MouseDown(1, <<304, 342>>), MouseDown(1, <<304, 374>>), MouseDown(1, <<304, 406>>),
       MouseDown(1, <<272, 374>>), MouseDown(1, <<272, 406>>), MouseDown(1, <<240, 406>>) >>

\* left clicks on the two surface cells under the player
DigClicks == << MouseDown(1, <<144, 310>>), MouseDown(1, <<176, 310>>) >>

\* one click, left or right, four columns to the left and four rows down
QuestEventLists ==
    {<<>>, OreClicks, DigClicks, <<MouseDown(1, <<48, 406>>)>>, <<MouseDown(3, <<48, 406>>)>>}

QuestFrames == 14

QuestInit == InitWith(1, <<>>)

QuestPass ==
    /\ Frames < QuestFrames
    /\ \E keys \in {NoKeys, SelectOre}, evs \in QuestEventLists : Tick(keys, evs, BOOLEAN)

QuestNext == MineClick \/ PlaceClick \/ QuestPass

QuestSpec == QuestInit /\ [][QuestNext]_vars

(***************************************************************************)
(* SiegeSpec: the quest played to its end.  During the first               *)
(* SiegeClickFrames passes the player may sweep the pointer, button held,  *)
(* over the twelve columns and nine rows of cells below and beside the     *)
(* spawn position; then it leaves the game alone, and closes the window    *)
(* in the pass numbered SiegeFrames unless the game has ended before.  The *)
(* boss never draws a jump.                                                *)
(*                                                                         *)
(* `while running:` keeps taking passes, and a pass dispatches every event *)
(* of its list before it goes on: that is the weak fairness of SiegeNext.  *)
(* It is stated on SiegeTurn, which is SiegeNext seen from the variables   *)
(* pc, events and time_of_day: SiegeTurn is enabled exactly where          *)
(* SiegeNext is (a pass has a result for every input), and a step of       *)
(* SiegeNext is a step of SiegeTurn that changes one of the three (a       *)
(* dispatch shortens events, a pass advances time_of_day).                 *)
(***************************************************************************)
SiegeClickFrames == 16

SiegeFrames == 300

\* the sweep, column by column: clicks i .. n-1 of the 12 x 9 positions
RECURSIVE Sweep(_, _)
Sweep(i, n) ==
    IF i >= n THEN <<>>
    ELSE <<MouseDown(1, <<16 + 32 * (i \div 9), 280 + 32 * (i % 9)>>)>> \o Sweep(i + 1, n)

SiegeClicks == Sweep(0, 27) \o Sweep(27, 54) \o Sweep(54, 81) \o Sweep(81, 108)

SiegeEventLists ==
    IF Frames + 1 < SiegeClickFrames THEN {<<>>, SiegeClicks}
    ELSE IF Frames + 2 >= SiegeFrames THEN {<<QuitEvent>>}
    ELSE {<<>>}

SiegeInit == InitWith(1, <<>>)

SiegePass ==
    /\ Frames < SiegeFrames
    /\ \E evs \in SiegeEventLists : Tick(NoKeys, evs, {FALSE})

SiegeNext == Quit \/ MineClick \/ SiegePass

\* SiegePass on pc, events and time_of_day
SiegeTick ==
    /\ pc = "frame"
    /\ events = <<>>
    /\ player.vel_y.k < MaxGravitySteps
    /\ Frames < SiegeFrames
    /\ time_of_day' = NextTimeOfDay(time_of_day)
    /\ pc' \in {"frame", "done", "crashed"}
    /\ events' \in SiegeEventLists \cup {<<>>}

SiegeTurn == Quit \/ MineClick \/ SiegeTick

SiegeSpec ==
    SiegeInit /\ [][SiegeNext]_vars /\ WF_<<pc, events, time_of_day>>(SiegeTurn)

(***************************************************************************)
(* EdgeSpec: on the plain terrain the player holds Left for EdgeWalkFrames *)
(* passes, which takes it past column 0 (the Player is not kept inside the *)
(* world), and then falls beside the world, clicking on the four cells     *)
(* below its row in each of the columns 0..3.                              *)
(***************************************************************************)
EdgeWalkFrames == 45

EdgeFrames == 75

EdgeClicks ==
    << MouseDown(1, <<16, 302>>), MouseDown(1, <<48, 302>>),
       MouseDown(1, <<80, 302>>), MouseDown(1, <<112, 302>>),
       MouseDown(1, <<16, 334>>), MouseDown(1, <<48, 334>>),
       MouseDown(1, <<80, 334>>), MouseDown(1, <<112, 334>>),
       MouseDown(1, <<16, 366>>), MouseDown(1, <<48, 366>>),
       MouseDown(1, <<80, 366>>), MouseDown(1, <<112, 366>>),
       MouseDown(1, <<16, 398>>), MouseDown(1, <<48, 398>>),
       MouseDown(1, <<80, 398>>), MouseDown(1, <<112, 398>>) >>

EdgeKeys == IF Frames < EdgeWalkFrames THEN {HoldLeft} ELSE {NoKeys}

EdgeEventLists == IF Frames + 1 < EdgeWalkFrames THEN {<<>>} ELSE {<<>>, EdgeClicks}

EdgeInit == InitWith(2, <<>>)

EdgePass ==
    /\ Frames < EdgeFrames
    /\ \E keys \in EdgeKeys, evs \in EdgeEventLists : Tick(keys, evs, BOOLEAN)

EdgeNext == MineClick \/ EdgePass

EdgeSpec == EdgeInit /\ [][EdgeNext]_vars

(***************************************************************************)
(* BedrockSpec: the same walk, and the fall down to the last row.  The     *)
(* pointer stays in the lower left corner of the window: once the camera   *)
(* rests on the bottom of the world, (16, 488) is the cell of column 0 in  *)
(* the row above the last and (16, 520) the cell of column 0 in the last   *)
(* row.                                                                    *)
(***************************************************************************)
BedrockFrames == 102

BedrockEventLists ==
    {<<>>, <<MouseDown(1, <<16, 488>>)>>, <<MouseDown(1, <<16, 520>>)>>,
     <<MouseDown(3, <<16, 520>>)>>}

BedrockPass ==
    /\ Frames < BedrockFrames
    /\ \E keys \in EdgeKeys, evs \in BedrockEventLists : Tick(keys, evs, BOOLEAN)

BedrockNext == MineClick \/ PlaceClick \/ BedrockPass

BedrockSpec == EdgeInit /\ [][BedrockNext]_vars

(***************************************************************************)
(* BuildSpec: building next to a jumping player, on the ramp terrain (the  *)
(* ground around the spawn column is flat, surface row 34, Stone from row  *)
(* 37 down in column 1).  The player selects stone, mines a Stone cell,    *)
(* places blocks and walks and jumps to the right.                         *)
(***************************************************************************)
BuildFrames == 7

\* Left or Right held together with the jump key
JumpRight == KeyState(FALSE, TRUE, TRUE, FALSE, FALSE, FALSE, FALSE)

\* pygame.event.get(): nothing, one click, or a left click followed by a
\* right click at the same position.  The pointer positions, in window
\* coordinates: (48, 400) is a Stone cell four columns to the left and four
\* rows down of the standing player; (208, 246) the Air cell of column 6
\* beside the standing player's head (row 32); (900, 100) an Air cell of
\* the sky 23 columns to the right; and (208, 277) the cell of column 6,
\* row 32 again, as the window shows it once the camera has followed three
\* passes of a jump.
BuildEventLists ==
    {<<>>,
     <<MouseDown(1, <<48, 400>>)>>,
     <<MouseDown(3, <<208, 246>>)>>,
     <<MouseDown(3, <<900, 100>>)>>,
     <<MouseDown(1, <<208, 277>>), MouseDown(3, <<208, 277>>)>>}

BuildInit == InitWith(3, <<>>)

BuildPass ==
    /\ Frames < BuildFrames
    /\ \E keys \in {SelectStone, HoldRight, JumpRight}, evs \in BuildEventLists :
         Tick(keys, evs, {FALSE})

BuildNext == MineClick \/ PlaceClick \/ BuildPass

BuildSpec == BuildInit /\ [][BuildNext]_vars

(***************************************************************************)
(* GenSpec: generate_world called on its own, for every width and height   *)
(* up to the bounds and every outcome of the column steps; the ore draws   *)
(* are all failures or succeed on the cells of one colour of a chessboard. *)
(***************************************************************************)
MaxGenWidth == 5

MaxGenHeight == 20

\* the outcomes of random.choice([-1, 0, 1]), one per column
GenSteps(width) == [0..(width - 1) -> {-1, 0, 1}]

\* outcomes of random.random() < 0.05, one per cell
GenOres(width, height) ==
    {[c \in (0..(height - 1)) \X (0..(width - 1)) |-> FALSE],
     [c \in (0..(height - 1)) \X (0..(width - 1)) |-> (c[1] + c[2]) % 2 = 0]}

\* the call generate_world(width, height) before it runs
GenCall(width, height, steps, ores) ==
    [fn |-> "generate_world", width |-> width, height |-> height,
     steps |-> steps, ores |-> ores,
     returned |-> FALSE, raised |-> "none", world |-> <<>>]

GenInit ==
    /\ SetUp(2, <<>>)
    /\ \E width \in 1..MaxGenWidth, height \in 1..MaxGenHeight :
         \E steps \in GenSteps(width), ores \in GenOres(width, height) :
             call = GenCall(width, height, steps, ores)

\* the call runs: it raises IndexError or returns the grid
Generate ==
    /\ call # None
    /\ call.fn = "generate_world"
    /\ ~call.returned
    /\ call.raised = "none"
    /\ call' = IF generate_world_raises(call.width, call.height, call.steps)
               THEN [call EXCEPT !.raised = "IndexError"]
               ELSE [call EXCEPT !.returned = TRUE,
                                 !.world = generate_world(call.width, call.height,
                                                          call.steps, call.ores)]
    /\ UNCHANGED <<terrain, world, player, enemies, enemy_spawn_timer, boss,
                   boss_spawned, boss_defeated, time_of_day, day_count, brightness,
                   camera_x, camera_y, spawn_x, spawn_y, running, events, event,
                   pc, fault, bosses_made>>

GenSpec == GenInit /\ [][Generate]_vars

(***************************************************************************)
(* LandSpec: the update method of a Player, an Enemy or a Boss called on   *)
(* its own, for a body in the air above the plain terrain (surface row 30) *)
(* that moves downward.  The grid is the generated one, or has one Stone   *)
(* tile placed on the surface of column 6, or has the surface tile of      *)
(* column 5 mined.                                                         *)
(***************************************************************************)
\* the body has fallen for up to this many ticks (0.6 px/tick more each tick)
MaxFallSteps == 60

\* its bottom edge is up to this many px above the surface
MaxDrop == 40

\* grids, as the cells changed since generation
LandGrids ==
    {EmptyGrid,
     [c \in {<<29, 6>>} |-> STONE],
     [c \in {<<30, 5>>} |-> AIR]}

\* a sprite of class cls as constructed, then moved and accelerated by falling
LandBody(cls, left, bottom, k) ==
    LET made == IF cls = "Player" THEN Player_init(left + PLAYER_W \div 2, bottom)
                ELSE IF cls = "Enemy" THEN Enemy_init(left + PLAYER_W \div 2, bottom, 1)
                ELSE Boss_init(left + BOSS_SIZE \div 2, bottom)
    IN  [made EXCEPT !.vel_y = VelY(0, k)]

\* the solid cells of grid w that the rect r overlaps
Overlapped(r, w) ==
    {c \in (FloorDiv(Top(r), TILE_SIZE)..FloorDiv(Bottom(r) - 1, TILE_SIZE)) \X
           (FloorDiv(Left(r), TILE_SIZE)..FloorDiv(Right(r) - 1, TILE_SIZE)) :
        InGrid(c[1], c[2]) /\ is_solid(WorldGet(w, c[1], c[2]))}

LandInit ==
    /\ SetUp(2, <<>>)
    /\ \E cls \in {"Player", "Enemy", "Boss"}, grid \in LandGrids,
          \* left edge on a tile boundary or half a tile further
          left \in {4 * TILE_SIZE, 4 * TILE_SIZE + TILE_SIZE \div 2},
          bottom \in {30 * TILE_SIZE - d : d \in 0..MaxDrop},
          k \in 0..MaxFallSteps :
         /\ Overlapped(LandBody(cls, left, bottom, k).rect, grid) = {}
         /\ call = [fn |-> "update", cls |-> cls, grid |-> grid,
                    body |-> LandBody(cls, left, bottom, k), returned |-> FALSE]

\* sprite.update(world) for the Player, sprite.update(world, player) for the
\* others; a body in the air draws no jump
Update ==
    /\ call # None
    /\ call.fn = "update"
    /\ ~call.returned
    /\ call' = [call EXCEPT
                   !.body = IF call.cls = "Player" THEN Player_update(@, call.grid)
                            ELSE IF call.cls = "Enemy"
                            THEN Enemy_update(@, call.grid, player, FALSE)
                            ELSE Boss_update(@, call.grid, player, FALSE),
                   !.returned = TRUE]
    /\ UNCHANGED <<terrain, world, player, enemies, enemy_spawn_timer, boss,
                   boss_spawned, boss_defeated, time_of_day, day_count, brightness,
                   camera_x, camera_y, spawn_x, spawn_y, running, events, event,
                   pc, fault, bosses_made>>

LandSpec == LandInit /\ [][Update]_vars

(***************************************************************************)
(* HordeSpec: the block "Update enemies" (lines 644-659) run on its own on *)
(* a group of up to MaxEnemies Enemy sprites, with the player at the spawn *)
(* position on the plain terrain.  The sprites are as the spawn code makes *)
(* them at column 17, standing on the surface, or have fallen to the lower *)
(* edge of the world, at rest or moving down, unharmed or with their       *)
(* health taken by damage().                                               *)
(***************************************************************************)
MaxEnemies == 2

\* top edges: standing on the surface (row 30), and around the lower edge
\* of the world, WORLD_HEIGHT * TILE_SIZE; k ticks of free fall behind the
\* sprite: vel_y 0, 0.6 and 24
HordeBodies ==
    {[Enemy_init(17 * TILE_SIZE, top + PLAYER_H, 1) EXCEPT
          !.vel_y = VelY(0, k),
          !.on_ground = (k = 0 /\ top < 31 * TILE_SIZE),
          !.health = h] :
        top \in {30 * TILE_SIZE - PLAYER_H,
                 WORLD_HEIGHT * TILE_SIZE - 20,
                 WORLD_HEIGHT * TILE_SIZE - 1,
                 WORLD_HEIGHT * TILE_SIZE},
        k \in {0, 1, 40},
        h \in {30, 0}}

RECURSIVE Groups(_)
\* the groups of up to n sprites, in insertion order
Groups(n) ==
    IF n = 0 THEN {<<>>}
    ELSE Groups(n - 1) \cup
         {Append(g, e) : g \in {h \in Groups(n - 1) : Len(h) = n - 1}, e \in HordeBodies}

HordeInit ==
    /\ SetUp(2, <<>>)
    /\ \E es \in Groups(MaxEnemies) :
         call = [fn |-> "update enemies", enemies |-> es, updated |-> <<>>,
                 returned |-> FALSE]

\* the for loop over list(enemies); the sprites on the ground draw
\* random.random() < ENEMY_JUMP_CHANCE
UpdateEnemies ==
    /\ call # None
    /\ call.fn = "update enemies"
    /\ ~call.returned
    /\ \E jumps \in [{i \in 1..Len(call.enemies) : call.enemies[i].on_ground} -> BOOLEAN] :
         \E loop \in {EnemiesLoop(call.enemies, 1, player, world, jumps)} :
             /\ enemies' = loop.enemies
             /\ player' = loop.player
             \* history: each sprite as its enemy.update(world, player) left it
             /\ call' = [call EXCEPT
                    !.updated = [i \in 1..Len(call.enemies) |->
                                    Enemy_update(call.enemies[i], world, player,
                                                 i \in DOMAIN jumps /\ jumps[i])],
                    !.returned = TRUE]
    /\ UNCHANGED <<terrain, world, enemy_spawn_timer, boss, boss_spawned,
                   boss_defeated, time_of_day, day_count, brightness, camera_x,
                   camera_y, spawn_x, spawn_y, running, events, event, pc, fault,
                   bosses_made>>

HordeSpec == HordeInit /\ [][UpdateEnemies]_vars

(***************************************************************************)
(* ResolveSpec: _resolve_collisions of a Player, an Enemy or a Boss called *)
(* on its own, and then once more with dx = 0 and dy = 0.  The body is a   *)
(* sprite as constructed and moved: above, on and inside the ground of the *)
(* plain terrain (surface row 30), and at both side edges of the world,    *)
(* where update's `rect.x += int(vel_x)` can put it.  dx and dy are the    *)
(* signs of the arguments of the first call.                               *)
(***************************************************************************)
ResolveInit ==
    /\ SetUp(2, <<>>)
    /\ \E cls \in {"Player", "Enemy", "Boss"}, grid \in LandGrids,
          left \in {-10, 4 * TILE_SIZE, 4 * TILE_SIZE + TILE_SIZE \div 2,
                    WORLD_WIDTH * TILE_SIZE - 10},
          bottom \in {30 * TILE_SIZE + d : d \in (-MaxDrop)..MaxDrop},
          k \in {0, 1}, dx \in {-1, 0, 1}, dy \in {-1, 0, 1} :
         call = [fn |-> "_resolve_collisions", cls |-> cls, grid |-> grid,
                 dx |-> dx, dy |-> dy, arg |-> LandBody(cls, left, bottom, k),
                 body |-> LandBody(cls, left, bottom, k), calls |-> 0]

\* self._resolve_collisions(world, dx, dy), then
\* self._resolve_collisions(world, dx=0, dy=0)
ResolveCollisions ==
    /\ call # None
    /\ call.fn = "_resolve_collisions"
    /\ call.calls < 2
    /\ call' = [call EXCEPT
                   !.body = IF call.calls = 0
                            THEN Resolve(call.cls, @, call.grid, call.dx, call.dy)
                            ELSE Resolve(call.cls, @, call.grid, 0, 0),
                   !.calls = @ + 1]
    /\ UNCHANGED <<terrain, world, player, enemies, enemy_spawn_timer, boss,
                   boss_spawned, boss_defeated, time_of_day, day_count, brightness,
                   camera_x, camera_y, spawn_x, spawn_y, running, events, event,
                   pc, fault, bosses_made>>

ResolveSpec == ResolveInit /\ [][ResolveCollisions]_vars

(***************************************************************************)
(* MeleeSpec: the passes of the loop with attackers around the player, on  *)
(* the plain terrain with no input.  The group holds up to MaxEnemies      *)
(* Enemy sprites standing on the surface left of, on and right of the      *)
(* player, where their walk toward it has taken them; the boss is absent,  *)
(* or stands on the player's column as the spawn code puts it, or stands   *)
(* to the right and has yet to arrive.  The enemies on the ground all draw *)
(* a jump or all draw none in the first MeleeJumpFrames passes, and draw   *)
(* none afterwards; the boss draws none.                                   *)
(***************************************************************************)
MeleeFrames == 125

MeleeJumpFrames == 6

\* the state at the top of the loop, with the locals `enemies` and `boss` set
MeleeInit ==
    /\ terrain = 2
    /\ world = EmptyGrid
    /\ player = Player_init(5 * TILE_SIZE, SpawnGroundRow(2) * TILE_SIZE)
    \* left edges 100, 144 and 190: the player's rect is at x 144..176
    /\ \E n \in 0..MaxEnemies : \E lefts \in [1..n -> {100, 144, 190}] :
         enemies = [i \in 1..n |->
                       Enemy_init(lefts[i] + PLAYER_W \div 2, 30 * TILE_SIZE, 1)]
    /\ enemy_spawn_timer = 0
    /\ boss \in {None, Boss_init(5 * TILE_SIZE, 30 * TILE_SIZE),
                  Boss_init(12 * TILE_SIZE, 30 * TILE_SIZE)}
    /\ boss_spawned = (boss # None)
    /\ boss_defeated = FALSE
    /\ time_of_day = 0
    /\ day_count = 0
    /\ brightness = Unbound
    /\ camera_x = Unbound
    /\ camera_y = Unbound
    /\ spawn_x = Unbound
    /\ spawn_y = Unbound
    /\ running = TRUE
    /\ events = <<>>
    /\ event = NoEvent
    /\ pc = "frame"
    /\ fault = "none"
    /\ bosses_made = IF boss = None THEN <<>> ELSE <<boss>>
    /\ call = None

MeleePass ==
    /\ Frames < MeleeFrames
    /\ \E jump \in IF Frames < MeleeJumpFrames THEN BOOLEAN ELSE {FALSE} :
         TickWith(NoKeys, <<>>, 0, 1,
                  [i \in {j \in 1..Len(enemies) : enemies[j].on_ground} |-> jump], FALSE)

MeleeSpec == MeleeInit /\ [][MeleePass]_vars

(***************************************************************************)
(* Properties                                                              *)
(***************************************************************************)
\* C1: on the day/night clock, time_of_day = 0 gives brightness 1.0 and the
\* night branch is inactive; time_of_day = DAY_LENGTH / 2 gives brightness
\* 0.0 and the night branch is eligible (is_night = brightness < 0.5).
\* brightness is the value computed in the pass that set time_of_day.
C1_BrightnessAtMidnightAndNoon ==
    brightness # Unbound =>
        /\ time_of_day = 0 =>
               brightness = 2 * DAY_LENGTH /\ ~(brightness < DAY_LENGTH)
        /\ time_of_day = DAY_LENGTH \div 2 =>
               brightness = 0 /\ brightness < DAY_LENGTH

\* C2: zombies spawn during the night: night passes recur in every period of
\* DAY_LENGTH passes, so once a whole period has gone by with the boss not
\* defeated the night branch has run (the spawn timer has counted or a spawn
\* attempt has drawn a column).
C2_NightBranchRunsInEveryPeriod ==
    (day_count >= 1 /\ ~boss_defeated) =>
        (enemy_spawn_timer > 0 \/ spawn_x # Unbound \/ enemies # <<>>)

\* C3: the Boss is constructed at most once: boss_spawned, once true, stays
\* true, a Boss is constructed only in a pass that turns boss_spawned from
\* false to true, and the number of Boss objects constructed is never more
\* than 1, whatever the Ore count does afterwards.
C3_BossSpawnsOnce ==
    [][ /\ boss_spawned => boss_spawned'
        /\ Len(bosses_made') > Len(bosses_made) => ~boss_spawned /\ boss_spawned'
        /\ Len(bosses_made') <= 1
        /\ boss_spawned' => Len(bosses_made') = 1 ]_vars

\* C3 witness: the boss has spawned and the Ore count has dropped below
\* BOSS_SPAWN_ORE_COUNT again, and a pass has run its boss check since.
C3_SpawnedAndOreBelowCount ==
    /\ boss_spawned
    /\ Len(bosses_made) = 1
    /\ player.inventory.ore < BOSS_SPAWN_ORE_COUNT
    /\ event = NoEvent
    /\ pc = "frame"

\* C4: in every pass, if the boss has not spawned and the Ore count is at
\* least BOSS_SPAWN_ORE_COUNT, a Boss is constructed in that pass, centred on
\* the player's centre with its bottom on the top of the topmost solid row
\* of the player's column; with a lower Ore count no Boss is constructed.
C4_BossOnTopmostSolidRowOfPlayersColumn ==
    [][ (pc = "frame" /\ events = <<>>) =>
          LET ore == player.inventory.ore
              made == Len(bosses_made') > Len(bosses_made)
              b == bosses_made'[Len(bosses_made')]
              bx == player'.rect.x + player'.rect.w \div 2
              col == bx \div TILE_SIZE
          IN  /\ (~boss_spawned /\ ore >= BOSS_SPAWN_ORE_COUNT) => made
              /\ ore < BOSS_SPAWN_ORE_COUNT => ~made
              /\ made =>
                   /\ b.rect.x + b.rect.w \div 2 = bx
                   /\ \E y \in 0..(WORLD_HEIGHT - 1) :
                        /\ InGrid(y, col)
                        /\ WorldGet(world, y, col) # AIR
                        /\ \A z \in 0..(y - 1) : WorldGet(world, z, col) = AIR
                        /\ b.rect.y + b.rect.h = y * TILE_SIZE ]_vars

\* C5: no reachable pass raises a fault, for every player position and every
\* click position.
C5_NoFault == fault = "none" /\ pc # "crashed"

\* C6: the boss can be defeated: once the Boss has spawned, a game that is
\* played on leads to boss_defeated.
C6_BossIsDefeated == boss_spawned ~> boss_defeated

\* What decides C6 in every specification: no step changes the health the
\* Boss was constructed with, and boss_defeated stays false.
BossUnharmed == (boss # None => boss.health = 250) /\ ~boss_defeated

\* C7: a mine_block call on a target whose tile coordinate differs from the
\* player's centre tile by more than 4 in the column or in the row leaves
\* every grid cell and every inventory count unchanged.
C7_MineBeyondReachChangesNothing ==
    [][ LET pos == Head(events).pos
            tx == (pos[1] + camera_x) \div TILE_SIZE
            ty == (pos[2] + camera_y) \div TILE_SIZE
            px == (player.rect.x + player.rect.w \div 2) \div TILE_SIZE
            py == (player.rect.y + player.rect.h \div 2) \div TILE_SIZE
        IN  ( /\ Dispatching("MOUSEBUTTONDOWN", 1)
              /\ ~CameraUnbound
              /\ (Abs(tx - px) > 4 \/ Abs(ty - py) > 4) )
            => world' = world /\ player'.inventory = player.inventory ]_vars

\* C7 witness: mine_block has been called on a cell in the grid that is not
\* Air and not in the last row, in reach by its column and out of reach by
\* its row.
C7_ClickedBelowReach ==
    /\ event.type = "MOUSEBUTTONDOWN"
    /\ event.button = 1
    /\ ~CameraUnbound
    /\ pc = "frame"
    /\ LET t == ClickTile(camera_x, camera_y, event.pos)
       IN  /\ Abs(t.x - PlayerTile(player).x) <= 4
           /\ Abs(t.y - PlayerTile(player).y) > 4
           /\ InGrid(t.y, t.x)
           /\ WorldGet(world, t.y, t.x) # AIR
           /\ t.y < WORLD_HEIGHT - 1

\* C8: every cell of the last row of a generated grid is solid, every cell
\* of the last row still holds its generated tile after any mine_block and
\* place_block calls, and so every column has a solid row.
C8_BedrockKept ==
    /\ \A t \in 1..NTerrains, x \in 0..(WORLD_WIDTH - 1) :
           GeneratedWorlds[t][WORLD_HEIGHT - 1][x] # AIR
    /\ \A x \in 0..(WORLD_WIDTH - 1) :
           /\ WorldGet(world, WORLD_HEIGHT - 1, x)
                  = GeneratedWorlds[terrain][WORLD_HEIGHT - 1][x]
           /\ \E y \in 0..(WORLD_HEIGHT - 1) : WorldGet(world, y, x) # AIR

\* C8 witness: mine_block has been called on a cell of the last row that is
\* in reach of the player.
C8_ClickedLastRowInReach ==
    /\ event.type = "MOUSEBUTTONDOWN"
    /\ event.button = 1
    /\ ~CameraUnbound
    /\ LET t == ClickTile(camera_x, camera_y, event.pos)
       IN  /\ t.y = WORLD_HEIGHT - 1
           /\ InGrid(t.y, t.x)
           /\ Abs(t.x - PlayerTile(player).x) <= 4
           /\ Abs(t.y - PlayerTile(player).y) <= 4

\* C9: a mine_block call on a target in reach, inside the grid, not Air and
\* not in the last row sets exactly that cell to Air and adds exactly 1 to
\* exactly one inventory count, the one of the mined tile (Dirt and Grass:
\* dirt, Stone: stone, Ore: ore, Wood: wood).  The cells compared are the
\* target and every cell that differs from the generated grid before or
\* after the call; the others hold the generated tile on both sides.
C9_MineTakesOneBlock ==
    [][ LET pos == Head(events).pos
            tx == (pos[1] + camera_x) \div TILE_SIZE
            ty == (pos[2] + camera_y) \div TILE_SIZE
            px == (player.rect.x + player.rect.w \div 2) \div TILE_SIZE
            py == (player.rect.y + player.rect.h \div 2) \div TILE_SIZE
            tile == WorldGet(world, ty, tx)
            key == IF tile \in {DIRT, GRASS} THEN "dirt"
                   ELSE IF tile = STONE THEN "stone"
                   ELSE IF tile = ORE THEN "ore"
                   ELSE "wood"
        IN  ( /\ Dispatching("MOUSEBUTTONDOWN", 1)
              /\ ~CameraUnbound
              /\ Abs(tx - px) <= 4
              /\ Abs(ty - py) <= 4
              /\ InGrid(ty, tx)
              /\ tile # AIR
              /\ ty # WORLD_HEIGHT - 1 )
            => /\ \A c \in DOMAIN world \cup DOMAIN world' \cup {<<ty, tx>>} :
                    WorldGet(world', c[1], c[2])
                        = IF c = <<ty, tx>> THEN AIR ELSE WorldGet(world, c[1], c[2])
               /\ DOMAIN player'.inventory = DOMAIN player.inventory
               /\ \A k \in DOMAIN player.inventory :
                    player'.inventory[k]
                        = player.inventory[k] + (IF k = key THEN 1 ELSE 0) ]_vars

\* C9 witness: mine_block has been called on a Grass cell in reach, which is
\* now Air, and the player holds the dirt.
C9_MinedGrass ==
    /\ event.type = "MOUSEBUTTONDOWN"
    /\ event.button = 1
    /\ ~CameraUnbound
    /\ LET t == ClickTile(camera_x, camera_y, event.pos)
       IN  /\ InGrid(t.y, t.x)
           /\ Abs(t.x - PlayerTile(player).x) <= 4
           /\ Abs(t.y - PlayerTile(player).y) <= 4
           /\ GeneratedWorlds[terrain][t.y][t.x] = GRASS
           /\ <<t.y, t.x>> \in DOMAIN world
           /\ world[<<t.y, t.x>>] = AIR
           /\ player.inventory.dirt >= 1

\* C10: a place_block call changes no grid cell and no inventory count, and
\* raises no fault, whenever the count of the selected resource is 0, or the
\* target tile is outside the grid, or it is not Air, or its rectangle
\* overlaps the player's rectangle.
C10_PlaceRefusedChangesNothing ==
    [][ LET pos == Head(events).pos
            tx == (pos[1] + camera_x) \div TILE_SIZE
            ty == (pos[2] + camera_y) \div TILE_SIZE
            r == player.rect
            overlaps == /\ r.x < (tx + 1) * TILE_SIZE
                        /\ tx * TILE_SIZE < r.x + r.w
                        /\ r.y < (ty + 1) * TILE_SIZE
                        /\ ty * TILE_SIZE < r.y + r.h
        IN  ( /\ Dispatching("MOUSEBUTTONDOWN", 3)
              /\ ~CameraUnbound
              /\ \/ player.inventory[player.selected] = 0
                 \/ ~InGrid(ty, tx)
                 \/ WorldGet(world, ty, tx) # AIR
                 \/ overlaps )
            => /\ world' = world
               /\ player'.inventory = player.inventory
               /\ fault' = "none"
               /\ pc' = "frame" ]_vars

\* C10 witness: place_block has been called, with a positive count of the
\* selected resource, on an Air cell of the grid that overlaps the player.
C10_ClickedOnThePlayer ==
    /\ event.type = "MOUSEBUTTONDOWN"
    /\ event.button = 3
    /\ ~CameraUnbound
    /\ fault = "none"
    /\ LET t == ClickTile(camera_x, camera_y, event.pos)
       IN  /\ player.inventory[player.selected] > 0
           /\ InGrid(t.y, t.x)
           /\ WorldGet(world, t.y, t.x) = AIR
           /\ colliderect(player.rect, TileRect(t))

\* C11: mining a Stone tile and then placing with 'stone' selected at the
\* same, now empty coordinate, the player not having moved, restores the
\* tile id of every cell and every inventory count.
C11_MineThenPlaceRestores ==
    [][ LET pos == Head(events).pos
            tx == (pos[1] + camera_x) \div TILE_SIZE
            ty == (pos[2] + camera_y) \div TILE_SIZE
        IN  ( /\ Dispatching("MOUSEBUTTONDOWN", 1)
              /\ ~CameraUnbound
              /\ Len(events) >= 2
              /\ events[2] = MouseDown(3, pos)
              /\ player.selected = "stone"
              /\ InGrid(ty, tx)
              /\ WorldGet(world, ty, tx) = STONE
              /\ WorldGet(world', ty, tx) = AIR )
            => LET r == place_block(player', world', camera_x, camera_y, pos)
               IN  /\ r.world = world
                   /\ r.player.inventory = player.inventory ]_vars

\* C12: a place_block call on a target whose tile coordinate differs from
\* the player's centre tile by more than 4 in the column or in the row
\* leaves every grid cell and every inventory count unchanged.
C12_PlaceBeyondReachChangesNothing ==
    [][ LET pos == Head(events).pos
            tx == (pos[1] + camera_x) \div TILE_SIZE
            ty == (pos[2] + camera_y) \div TILE_SIZE
            px == (player.rect.x + player.rect.w \div 2) \div TILE_SIZE
            py == (player.rect.y + player.rect.h \div 2) \div TILE_SIZE
        IN  ( /\ Dispatching("MOUSEBUTTONDOWN", 3)
              /\ ~CameraUnbound
              /\ (Abs(tx - px) > 4 \/ Abs(ty - py) > 4) )
            => world' = world /\ player'.inventory = player.inventory ]_vars


\* C13: in every grid generate_world returns, for every width >= 1 and
\* height >= 1 and every outcome of the draws, every column has a surface
\* row (its topmost non-Air row); the surface tile is Grass, the 4 rows
\* below it are Dirt, the rows from there to the last row are Stone or Ore,
\* and every row above the surface is Air.
C13_ColumnsAreLayered ==
    (call # None /\ call.fn = "generate_world" /\ call.returned) =>
        \A x \in 0..(call.width - 1) :
            \E s \in 0..(call.height - 1) :
                /\ \A y \in 0..(s - 1) : call.world[y][x] = AIR
                /\ call.world[s][x] = GRASS
                /\ s + 4 <= call.height - 1
                /\ \A y \in (s + 1)..(s + 4) : call.world[y][x] = DIRT
                /\ \A y \in (s + 5)..(call.height - 1) :
                       call.world[y][x] \in {STONE, ORE}

\* C14: in every grid generate_world returns, every column has a surface
\* row (its topmost non-Air row) in height // 2 - 4 .. height // 2 + 4, and
\* the surface rows of adjacent columns differ by at most 1.
C14_SurfaceIsGentle ==
    (call # None /\ call.fn = "generate_world" /\ call.returned) =>
        LET solid(x) == {y \in 0..(call.height - 1) : call.world[y][x] # AIR}
            surface(x) == CHOOSE y \in solid(x) : \A z \in solid(x) : y <= z
            base == call.height \div 2
        IN  /\ \A x \in 0..(call.width - 1) :
                 /\ solid(x) # {}
                 /\ surface(x) >= base - 4
                 /\ surface(x) <= base + 4
            /\ \A x \in 0..(call.width - 2) :
                 (solid(x) # {} /\ solid(x + 1) # {}) =>
                     Abs(surface(x) - surface(x + 1)) <= 1


\* C15: for every class, grid and downward speed, a body whose vertical
\* move takes its bottom edge below the top edge of the first solid tile
\* under its pre-move bottom edge (in the columns it spans) ends the tick
\* with on_ground true, vel_y 0 and its bottom edge on that top edge.
C15_LandsOnFirstSolidTileBelow ==
    [][ (call # None /\ call.fn = "update" /\ ~call.returned) =>
          LET b == call.body
              a == call'.body
              dy == IntVelY(AddGravity(b.vel_y))
              bottom == b.rect.y + b.rect.h
              cols == (a.rect.x \div TILE_SIZE)..((a.rect.x + a.rect.w - 1) \div TILE_SIZE)
              below == {y \in 0..(WORLD_HEIGHT - 1) :
                           /\ y * TILE_SIZE >= bottom
                           /\ \E x \in cols :
                                InGrid(y, x) /\ WorldGet(call.grid, y, x) # AIR}
              first == CHOOSE y \in below : \A z \in below : y <= z
          IN  (dy > 0 /\ below # {} /\ bottom + dy > first * TILE_SIZE) =>
                  /\ a.on_ground
                  /\ a.vel_y = VelY(0, 0)
                  /\ a.rect.y + a.rect.h = first * TILE_SIZE ]_vars


\* C16: at the end of every tick the Player's rect overlaps no solid tile
\* of the grid, whatever ticks, mine_block and place_block calls came
\* before.
C16_PlayerOverlapsNoSolidTile ==
    event = NoEvent =>
        \A y \in (player.rect.y \div TILE_SIZE)..
                     ((player.rect.y + player.rect.h - 1) \div TILE_SIZE),
           x \in (player.rect.x \div TILE_SIZE)..
                     ((player.rect.x + player.rect.w - 1) \div TILE_SIZE) :
            InGrid(y, x) => WorldGet(world, y, x) = AIR


C18_ClockWrapsAndCountsDays ==
    [][ (pc = "frame" /\ events = <<>>) =>
          /\ time_of_day' = (time_of_day + 1) % DAY_LENGTH
          /\ time_of_day' >= 0
          /\ time_of_day' < DAY_LENGTH
          /\ day_count' = IF time_of_day' = 0 THEN day_count + 1 ELSE day_count ]_vars

\* C18 witness: the tick in which time_of_day wraps to 0 has ended.
C18_FirstDayCompleted ==
    /\ event = NoEvent
    /\ time_of_day = 0
    /\ day_count = 1

\* C19: the tick in which player.health falls to 0 or below is the last
\* one (the loop ends at its end and nothing runs afterwards), and the
\* program stops in no other way than that or a quit event: whenever it
\* has stopped, player.health <= 0 or running was set to False by QUIT.
C19_StopsOnlyByDeathOrQuit ==
    [][ /\ pc = "frame"
        /\ (events = <<>> /\ player'.health <= 0) => pc' = "done"
        /\ pc' # "frame" => (player'.health <= 0 \/ ~running') ]_vars


\* C20: when the enemies have been updated, no Enemy of the active set has
\* health <= 0 or its top edge below WORLD_HEIGHT * TILE_SIZE; the Enemies
\* that have left the set are exactly those for which one of the two holds
\* after their update, the others stay in their order; and none is added.
C20_EnemiesLeaveOnlyDeadOrFallen ==
    [][ (call # None /\ call.fn = "update enemies" /\ ~call.returned) =>
          LET stays(e) == e.health > 0 /\ e.rect.y <= WORLD_HEIGHT * TILE_SIZE
          IN  /\ \A j \in 1..Len(enemies') : stays(enemies'[j])
              /\ enemies' = SelectSeq(call'.updated, stays)
              /\ Len(enemies') <= Len(call.enemies) ]_vars

\* C20 witness: of a group of two unharmed Enemies, the first has fallen
\* below the lower edge of the world in its update and has left the set,
\* the second is still in it.
C20_FallenEnemyLeft ==
    /\ call # None
    /\ call.fn = "update enemies"
    /\ call.returned
    /\ Len(call.updated) = 2
    /\ call.updated[1].health > 0
    /\ call.updated[1].rect.y > WORLD_HEIGHT * TILE_SIZE
    /\ enemies = <<call.updated[2]>>

\* C21: collision resolution is idempotent.  For each of the three classes,
\* on a body as a call of _resolve_collisions has left it, a further call
\* with dx = 0 and dy = 0 changes nothing: the rect, vel_x, vel_y and
\* on_ground (and every other field of the body) stay as they were.
C21_ResolveAgainChangesNothing ==
    [][(call # None /\ call.fn = "_resolve_collisions" /\ call.calls = 1)
          => call'.body = call.body]_vars

\* The first call has put a falling Boss on the ground, then the second
\* call has run.
C21_LandedAndResolvedAgain ==
    /\ call # None
    /\ call.fn = "_resolve_collisions"
    /\ call.calls = 2
    /\ call.cls = "Boss"
    /\ call.dy = 1
    /\ call.body.on_ground
    /\ Bottom(call.body.rect) = 30 * TILE_SIZE
    /\ Bottom(call.arg.rect) > 30 * TILE_SIZE

\* C22: a Player at rest on solid ground (on_ground true, vel_y = 0, the
\* bottom edge on the top edge of a solid tile under one of its bottom
\* corners) that is given no jump ends the pass at the same height with
\* on_ground still true -- so that it is at rest again at the start of every
\* later pass and handle_input honours a jump key in any of them.
C22_RestingPlayerStaysOnGround ==
    [][LET foot == Bottom(player.rect)
           row == FloorDiv(foot, TILE_SIZE)
           cols == {FloorDiv(Left(player.rect), TILE_SIZE),
                    FloorDiv(Right(player.rect) - 1, TILE_SIZE)}
           atRest == /\ player.on_ground
                     /\ player.vel_y = VelY(0, 0)
                     /\ foot = row * TILE_SIZE
                     /\ \E x \in cols : InGrid(row, x) /\ is_solid(WorldGet(world, row, x))
       IN  (/\ pc = "frame"
            /\ events = <<>>
            /\ atRest
            /\ time_of_day' # time_of_day
            /\ player'.vel_y.base = 0)
           => (player'.on_ground /\ Bottom(player'.rect) = foot)]_vars

\* C23: knockback.  In the pass after one in which an enemy or the boss has
\* hurt the player (hurt_cooldown = 60 at its end), the horizontal move of
\* Player.update is made with the velocity the hit has added to
\* player.vel_x (2 or 4 away from the attacker): the player's rect is where
\* that move and its collision pass put it.
C23_KnockbackMovesThePlayer ==
    [][(/\ pc = "frame"
        /\ events = <<>>
        /\ player.hurt_cooldown = 60
        /\ time_of_day' # time_of_day)
       => player'.rect.x = MoveHorizontally(player, world, "Player").rect.x]_vars

\* C24: invincibility frames.  In every pass the player's health stays or
\* drops, and it drops by one hit only: by 10 when an enemy overlaps the
\* player, by 20 when the boss does and no enemy does, however many of them
\* overlap it.  A pass that takes health ends with hurt_cooldown = 60 and
\* starts with hurt_cooldown <= 1; a pass that takes none lowers
\* hurt_cooldown by one at most.  So the timer needs 59 passes to come down
\* from 60 to 1 and the next loss is in the 60th pass after the hit at the
\* earliest.  Health never goes up.
C24_OneHitPerCooldown ==
    [][LET loss == player.health - player'.health
           touching == {i \in 1..Len(enemies') :
                           colliderect(enemies'[i].rect, player'.rect)}
       IN  /\ loss \in {0, 10, 20}
           /\ loss = 10 => touching # {}
           /\ loss = 20 => /\ touching = {}
                           /\ boss' # None
                           /\ colliderect(boss'.rect, player'.rect)
           /\ loss > 0 => player'.hurt_cooldown = 60 /\ player.hurt_cooldown <= 1
           /\ loss = 0 => player'.hurt_cooldown >= player.hurt_cooldown - 1]_vars

\* Two enemies and the boss overlap the player at the end of a pass in
\* which it has been hit for the second time, 60 passes after the first.
C24_HitAgainAmongThree ==
    /\ Len(enemies) = 2
    /\ boss # None
    /\ \A i \in 1..2 : colliderect(enemies[i].rect, player.rect)
    /\ colliderect(boss.rect, player.rect)
    /\ player.hurt_cooldown = 60
    /\ player.health = 80
    /\ Frames > 60

\* C25: conservation of material.  After any sequence of mine_block and
\* place_block calls, for each of stone + Stone tiles, ore + Ore tiles,
\* wood + Wood tiles and dirt + Dirt tiles + Grass tiles, the inventory
\* count plus the number of such tiles in the grid is what it was in the
\* generated world with the empty inventory; and no inventory count is
\* negative.  The tiles are counted over the cells that differ from the
\* generated grid: those that hold such a tile now, less those that held
\* one when generated.
C25_MaterialIsConserved ==
    LET kinds == [stone |-> {STONE}, ore |-> {ORE}, wood |-> {WOOD},
                  dirt |-> {DIRT, GRASS}]
        now(r) == Cardinality({c \in DOMAIN world : world[c] \in kinds[r]})
        then(r) == Cardinality({c \in DOMAIN world :
                                  GeneratedWorlds[terrain][c[1]][c[2]] \in kinds[r]})
    IN  \A r \in {"stone", "ore", "wood", "dirt"} :
            /\ player.inventory[r] + now(r) = then(r)
            /\ player.inventory[r] >= 0

\* Grass and Ore have been mined and one Ore has been placed back: the
\* call just dispatched was a place_block that took it from the inventory.
C25_MinedAndPlaced ==
    /\ event.type = "MOUSEBUTTONDOWN"
    /\ event.button = 3
    /\ player.inventory.dirt = 2
    /\ player.inventory.ore = 8
    /\ Cardinality(DOMAIN world) = 10

=============================================================================
